---- MODULE Spec2Model ----
(***************************************************************************)
(* Gameplay core of dungeon-vibes: GameEngine (start / stop / gameLoop /   *)
(* update), Player, Enemy and DungeonGenerator.                            *)
(*                                                                         *)
(* Fixed point: lengths are in 1/100 world unit, times in milliseconds,    *)
(* speeds in 1/100 world unit per second, angles in 1/10 degree.  Unit     *)
(* direction vectors are in 1/1000.  Divisions truncate toward zero.       *)
(***************************************************************************)
EXTENDS Integers, Sequences, FiniteSets, TLC

VARIABLES isRunning, pending, health, player, enemies, walls, layout, gen, hist

vars == <<isRunning, pending, health, player, enemies, walls, layout, gen, hist>>

(***************************************************************************)
(* Bounds of the model.                                                    *)
(***************************************************************************)
\* total simulated time (ms) a behaviour may integrate with dt > 0
MaxTime == 600
\* scheduled-but-undelivered animation-frame callbacks
MaxPending == 2
\* the update step is explored while health is above -HealthDepth
HealthDepth == 10
\* direct takeDamage calls explored
MaxHits == 4
\* largest width / height explored for generateLayout
MaxDim == 5
\* generateDungeon calls explored on one generator
MaxCalls == 2
\* total simulated time (ms) of a player stepped on its own
MaxFlight == 1500
\* Player.update calls explored for a walking player
MaxMoves == 2
\* deltaTime samples of gameLoop explored with the engine clock
MaxSamples == 3
\* enemies spawned by addEnemies (the game spawns 5)
EnemyCount == 2

(***************************************************************************)
(* Program constants.                                                      *)
(***************************************************************************)
TileSize == 200
PlayerSpeed == 500
JumpForce == 1000
Gravity == 2000
AttackRate == 500
AttackDamage == 25
AttackRange == 200
ColliderRadius == 50
GroundHeight == 100
RotationSpeed == 10
EnemySpeed == 200
EnemyGravity == 980
EnemyMaxHealth == 100
OrbitRadius == 500
InitialHealth == 100
ContactDamage == 5
DungeonWidth == 10
DungeonHeight == 10
WALL == 1
FLOOR == 2

(***************************************************************************)
(* Arithmetic helpers (JavaScript number semantics on the fixed point).    *)
(***************************************************************************)
Abs(a) == IF a < 0 THEN -a ELSE a

Min(a, b) == IF a < b THEN a ELSE b

Max(a, b) == IF a > b THEN a ELSE b

\* division truncating toward zero
Trunc(a, b) == IF (a < 0) = (b < 0) THEN Abs(a) \div Abs(b) ELSE -(Abs(a) \div Abs(b))

\* the % operator: the remainder has the sign of the dividend
JSMod(a, m) == a - m * Trunc(a, m)

RECURSIVE SqrtSearch(_, _, _)
SqrtSearch(n, lo, hi) ==
  IF lo >= hi THEN lo
  ELSE LET mid == (lo + hi + 1) \div 2
       IN IF mid * mid <= n THEN SqrtSearch(n, mid, hi) ELSE SqrtSearch(n, lo, mid - 1)

\* Math.sqrt, rounded down
ISqrt(n) == SqrtSearch(n, 0, Min(n, 46340))

(***************************************************************************)
(* DungeonGenerator.                                                       *)
(***************************************************************************)
\* the wall count rounded up instead of down
WallCountCeil(width, height) == (width * height + 9) \div 10

\* Math.floor(width * height * 0.1)
WallCount(width, height) == (width * height) \div 10

\* the grid after the initialisation loops: border walls, floor inside
BorderLayout(width, height) ==
  [y \in 0..(height - 1) |->
    [x \in 0..(width - 1) |->
      IF x = 0 \/ y = 0 \/ x = width - 1 \/ y = height - 1 THEN WALL ELSE FLOOR]]

\* the random-wall loop; picks[i] = <<x, y>> is the i-th pair of random draws
RECURSIVE Scatter(_, _, _)
Scatter(lay, picks, i) ==
  IF i > Len(picks) THEN lay
  ELSE LET x == picks[i][1]
           y == picks[i][2]
       IN Scatter([lay EXCEPT ![y][x] = WALL], picks, i + 1)

\* ensurePath with the loops running over the border cells too
ensurePathWide(lay, width, height) ==
  LET centerX == width \div 2
      centerY == height \div 2
  IN [y \in DOMAIN lay |->
       [x \in DOMAIN lay[y] |->
         IF y = centerY \/ x = centerX THEN FLOOR ELSE lay[y][x]]]

\* ensurePath without its vertical loop
ensurePathRow(lay, width, height) ==
  LET centerY == height \div 2
  IN [y \in DOMAIN lay |->
       [x \in DOMAIN lay[y] |->
         IF y = centerY /\ x >= 1 /\ x < width - 1 THEN FLOOR ELSE lay[y][x]]]

ensurePath(lay, width, height) ==
  LET centerX == width \div 2
      centerY == height \div 2
      horizontal == [y \in DOMAIN lay |->
                      [x \in DOMAIN lay[y] |->
                        IF y = centerY /\ x >= 1 /\ x < width - 1 THEN FLOOR ELSE lay[y][x]]]
  IN [y \in DOMAIN horizontal |->
       [x \in DOMAIN horizontal[y] |->
         IF x = centerX /\ y >= 1 /\ y < height - 1 THEN FLOOR ELSE horizontal[y][x]]]

generateLayout(width, height, picks) ==
  ensurePath(Scatter(BorderLayout(width, height), picks, 1), width, height)

\* the draws Math.floor(Math.random() * (dim - 2)) + 1 can produce
PickSet(width, height) == (1..(width - 2)) \X (1..(height - 2))

\* createDungeonMesh without the reset of this.walls
createDungeonMeshKeep(old, lay, width, height) ==
  LET IsWall(k) == lay[k \div width][k % width] = WALL
      cells == SelectSeq([k \in 1..(width * height) |-> k - 1], IsWall)
  IN old \o [i \in 1..Len(cells) |->
              [x |-> (cells[i] % width) * TileSize, z |-> (cells[i] \div width) * TileSize,
               size |-> TileSize]]

\* this.walls after createDungeonMesh, old being this.walls before it: the
\* list is reset, then the nested y / x loops push the cells
\* k = y * width + x that hold a wall, in increasing k
createDungeonMesh(old, lay, width, height) ==
  LET cleared == SubSeq(old, 1, 0)
      IsWall(k) == lay[k \div width][k % width] = WALL
      cells == SelectSeq([k \in 1..(width * height) |-> k - 1], IsWall)
  IN cleared \o [i \in 1..Len(cells) |->
                  [x |-> (cells[i] % width) * TileSize, z |-> (cells[i] \div width) * TileSize,
                   size |-> TileSize]]

\* squared distance from (px, pz) to the closest point of a wall rectangle
WallDist2(wall, px, pz) ==
  LET closestX == Max(wall.x - wall.size \div 2, Min(px, wall.x + wall.size \div 2))
      closestZ == Max(wall.z - wall.size \div 2, Min(pz, wall.z + wall.size \div 2))
  IN (closestX - px) * (closestX - px) + (closestZ - pz) * (closestZ - pz)

\* the test with <= in place of <
checkWallCollisionLe(ws, px, pz, radius) ==
  \E i \in 1..Len(ws) : WallDist2(ws[i], px, pz) <= radius * radius

\* distance < radius, compared on the squares
checkWallCollision(ws, px, pz, radius) ==
  \E i \in 1..Len(ws) : WallDist2(ws[i], px, pz) < radius * radius

\* the eight probe directions, in 1/1000
Directions ==
  << <<1000, 0>>, <<-1000, 0>>, <<0, 1000>>, <<0, -1000>>,
     <<707, 707>>, <<707, -707>>, <<-707, 707>>, <<-707, -707>> >>

\* the sign of (value of `distance` in iteration k) - (the double nearest to
\* k / 10): distance starts at 0.1 and grows by distance += 0.1 in IEEE-754
\* double arithmetic (0.1 + 0.1 + 0.1 is 0.30000000000000004; ten terms give
\* 0.9999999999999999).  Tabulated for k <= 40.
Drift(k) ==
  CASE k = 3 -> 1
    [] k \in 8..11 -> -1
    [] k \in 14..40 -> 1
    [] OTHER -> 0

\* iterations of  for (distance = 0.1; distance <= radius * 2; distance += 0.1):
\* radius * 2 is exact, so when it is a multiple of 0.1 the last iteration
\* runs only if the accumulated distance has not drifted above it
ProbeCount(radius) ==
  LET m == (2 * radius) \div 10
  IN IF m >= 1 /\ (2 * radius) % 10 = 0 /\ Drift(m) > 0 THEN m - 1 ELSE m

\* probe number k (0-based): direction k \div n, distance 0.1 * (k % n + 1)
Probe(px, pz, n, k) ==
  LET dir == Directions[(k \div n) + 1]
      distance == 10 * ((k % n) + 1)
  IN <<px + Trunc(dir[1] * distance, 1000), pz + Trunc(dir[2] * distance, 1000)>>

\* the first probe, in loop order, that is clear of the walls; the input
\* point when none is
\* getValidPosition without the early return for a clear input
getValidPositionProbing(ws, px, pz, radius) ==
  LET n == ProbeCount(radius)
      IsClear(k) == ~checkWallCollision(ws, Probe(px, pz, n, k)[1], Probe(px, pz, n, k)[2], radius)
      clear == SelectSeq([k \in 1..(8 * n) |-> k - 1], IsClear)
  IN IF Len(clear) = 0 THEN <<px, pz>> ELSE Probe(px, pz, n, clear[1])

getValidPosition(ws, px, pz, radius) ==
  LET n == ProbeCount(radius)
      IsClear(k) == ~checkWallCollision(ws, Probe(px, pz, n, k)[1], Probe(px, pz, n, k)[2], radius)
      clear == SelectSeq([k \in 1..(8 * n) |-> k - 1], IsClear)
  IN IF ~checkWallCollision(ws, px, pz, radius) THEN <<px, pz>>
     ELSE IF Len(clear) = 0 THEN <<px, pz>>
     ELSE Probe(px, pz, n, clear[1])

(***************************************************************************)
(* InputHandler.  The pressed keys are sampled once per frame; between two *)
(* frames any key events may arrive, so each frame sees any key set.       *)
(***************************************************************************)
isKeyPressed(keys, code) == code \in keys

\* 1 / sqrt(2) in 1/1000
Diag == 707

\* the normalized direction, in 1/1000
getMovementDirection(keys) ==
  LET dz == (IF isKeyPressed(keys, "KeyS") THEN 1 ELSE 0) - (IF isKeyPressed(keys, "KeyW") THEN 1 ELSE 0)
      dx == (IF isKeyPressed(keys, "KeyD") THEN 1 ELSE 0) - (IF isKeyPressed(keys, "KeyA") THEN 1 ELSE 0)
  IN IF dx # 0 /\ dz # 0 THEN <<dx * Diag, dz * Diag>> ELSE <<dx * 1000, dz * 1000>>

isAttacking(keys) == isKeyPressed(keys, "MouseLeft")

isJumping(keys) == isKeyPressed(keys, "Space")

isSprinting(keys) == isKeyPressed(keys, "ShiftLeft")

(***************************************************************************)
(* Player.                                                                 *)
(***************************************************************************)
\* Math.atan2(x, z) in 1/10 degree, for the vectors the eight key
\* directions produce (x = 0, z = 0 or |x| = |z|)
Atan2(x, z) ==
  CASE x = 0 /\ z >= 0 -> 0
    [] x = 0 /\ z < 0 -> 1800
    [] x > 0 /\ z = 0 -> 900
    [] x < 0 /\ z = 0 -> -900
    [] x > 0 /\ z > 0 -> 450
    [] x > 0 /\ z < 0 -> 1350
    [] x < 0 /\ z > 0 -> -450
    [] x < 0 /\ z < 0 -> -1350

\* the player after its constructor
NewPlayer ==
  [x |-> 0, y |-> 100, z |-> 0, vy |-> 0, rot |-> 0, isOnGround |-> TRUE,
   attackCooldown |-> 0]

\* ((angleDiff + Math.PI) % (Math.PI * 2)) - Math.PI, in 1/10 degree
normalizedAngleDiff(angleDiff) == JSMod(angleDiff + 1800, 3600) - 1800

handleRotation(p, dt, keys) ==
  LET direction == getMovementDirection(keys)
      targetRotation == Atan2(direction[1], direction[2])
      angleDiff == targetRotation - p.rot
  IN IF direction # <<0, 0>>
       THEN [p EXCEPT !.rot = p.rot + Trunc(normalizedAngleDiff(angleDiff) * Min(RotationSpeed * dt, 1000), 1000)]
       ELSE p

\* camera.rotation.y: updateCamera and init aim the camera along -z from a
\* point with the target's x, which leaves its yaw at 0
CameraYRotation == 0

\* Vector3.applyAxisAngle about the y axis, for the angle the camera has
applyAxisAngle(v, angle) == CASE angle = 0 -> v

\* handleMovement without any wall test
handleMovementFree(p, dt, keys, ws) ==
  LET direction == getMovementDirection(keys)
      moveSpeed == IF isSprinting(keys) THEN (PlayerSpeed * 3) \div 2 ELSE PlayerSpeed
      rotated == applyAxisAngle(direction, CameraYRotation)
      mx == Trunc(rotated[1] * moveSpeed * dt, 1000000)
      mz == Trunc(rotated[2] * moveSpeed * dt, 1000000)
  IN [p EXCEPT !.x = p.x + mx, !.z = p.z + mz,
               !.rot = IF mx # 0 \/ mz # 0 THEN Atan2(mx, mz) ELSE p.rot]

\* handleMovement trying the Z-only slide before the X-only slide
handleMovementZFirst(p, dt, keys, ws) ==
  LET direction == getMovementDirection(keys)
      moveSpeed == IF isSprinting(keys) THEN (PlayerSpeed * 3) \div 2 ELSE PlayerSpeed
      rotated == applyAxisAngle(direction, CameraYRotation)
      mx == Trunc(rotated[1] * moveSpeed * dt, 1000000)
      mz == Trunc(rotated[2] * moveSpeed * dt, 1000000)
      pos == IF ~checkWallCollision(ws, p.x + mx, p.z + mz, ColliderRadius)
               THEN <<p.x + mx, p.z + mz>>
             ELSE IF ~checkWallCollision(ws, p.x, p.z + mz, ColliderRadius)
               THEN <<p.x, p.z + mz>>
             ELSE IF ~checkWallCollision(ws, p.x + mx, p.z, ColliderRadius)
               THEN <<p.x + mx, p.z>>
             ELSE <<p.x, p.z>>
  IN [p EXCEPT !.x = pos[1], !.z = pos[2],
               !.rot = IF mx # 0 \/ mz # 0 THEN Atan2(mx, mz) ELSE p.rot]

handleMovement(p, dt, keys, ws) ==
  LET direction == getMovementDirection(keys)
      moveSpeed == IF isSprinting(keys) THEN (PlayerSpeed * 3) \div 2 ELSE PlayerSpeed
      rotated == applyAxisAngle(direction, CameraYRotation)
      mx == Trunc(rotated[1] * moveSpeed * dt, 1000000)
      mz == Trunc(rotated[2] * moveSpeed * dt, 1000000)
      pos == IF ~checkWallCollision(ws, p.x + mx, p.z + mz, ColliderRadius)
               THEN <<p.x + mx, p.z + mz>>
             ELSE IF ~checkWallCollision(ws, p.x + mx, p.z, ColliderRadius)
               THEN <<p.x + mx, p.z>>
             ELSE IF ~checkWallCollision(ws, p.x, p.z + mz, ColliderRadius)
               THEN <<p.x, p.z + mz>>
             ELSE <<p.x, p.z>>
  IN [p EXCEPT !.x = pos[1], !.z = pos[2],
               !.rot = IF mx # 0 \/ mz # 0 THEN Atan2(mx, mz) ELSE p.rot]

\* handleJumping without the isOnGround test before the jump
handleJumpingAir(p, dt, keys) ==
  LET vy1 == p.vy - Trunc(Gravity * dt, 1000)
      grounded == p.y <= GroundHeight
      y2 == IF grounded THEN GroundHeight ELSE p.y
      vy2 == IF grounded THEN 0 ELSE vy1
      jump == isJumping(keys)
      vy3 == IF jump THEN JumpForce ELSE vy2
  IN [p EXCEPT !.vy = vy3,
               !.isOnGround = grounded /\ ~jump,
               !.y = y2 + Trunc(vy3 * dt, 1000)]

handleJumping(p, dt, keys) ==
  LET vy1 == p.vy - Trunc(Gravity * dt, 1000)
      grounded == p.y <= GroundHeight
      y2 == IF grounded THEN GroundHeight ELSE p.y
      vy2 == IF grounded THEN 0 ELSE vy1
      jump == grounded /\ isJumping(keys)
      vy3 == IF jump THEN JumpForce ELSE vy2
  IN [p EXCEPT !.vy = vy3,
               !.isOnGround = grounded /\ ~jump,
               !.y = y2 + Trunc(vy3 * dt, 1000)]

\* the tick without its cooldown > 0 test
TickAlways(cooldown, dt) == cooldown - dt

\* the tick counting the frame time twice
TickFast(cooldown, dt) == IF cooldown > 0 THEN cooldown - 2 * dt ELSE cooldown

\* the cooldown after the tick at the top of handleAttacking
TickCooldown(cooldown, dt) == IF cooldown > 0 THEN cooldown - dt ELSE cooldown

\* whether handleAttacking calls attack() in this step
AttackIssued(p, dt, keys) == isAttacking(keys) /\ TickCooldown(p.attackCooldown, dt) <= 0

handleAttacking(p, dt, keys) ==
  [p EXCEPT !.attackCooldown =
     IF AttackIssued(p, dt, keys) THEN AttackRate ELSE TickCooldown(p.attackCooldown, dt)]

\* Player.update; updateCamera and the collider copy change no modelled field
PlayerUpdate(p, dt, keys, ws) ==
  handleAttacking(handleJumping(handleMovement(handleRotation(p, dt, keys), dt, keys, ws), dt, keys), dt, keys)

\* squared distance between two actors
Dist2(a, b) == (a.x - b.x) * (a.x - b.x) + (a.y - b.y) * (a.y - b.y) + (a.z - b.z) * (a.z - b.z)

\* distance < sum of the two collider radii, compared on the squares
checkCollision(p, e) == Dist2(p, e) < (ColliderRadius + ColliderRadius) * (ColliderRadius + ColliderRadius)

\* (0, 0, -1) turned by the yaw, as an integer vector <<x, z>>; the yaw is
\* one of the values Atan2 returns whenever the engine reads it
Forward(rot) ==
  CASE rot = 0 -> <<0, -1>>
    [] rot = 450 -> <<-1, -1>>
    [] rot = 900 -> <<-1, 0>>
    [] rot = 1350 -> <<-1, 1>>
    [] rot = 1800 -> <<0, 1>>
    [] rot = -450 -> <<1, -1>>
    [] rot = -900 -> <<1, 0>>
    [] rot = -1350 -> <<1, 1>>

\* distance <= attackRange and dot(normalized direction, forward) > 0.5;
\* with F = Forward(rot) the second is  d.F > 0 /\ 4 (d.F)^2 > |F|^2 |d|^2
isInAttackRange(p, e) ==
  LET f == Forward(p.rot)
      dot == (e.x - p.x) * f[1] + (e.z - p.z) * f[2]
  IN /\ Dist2(p, e) <= AttackRange * AttackRange
     /\ dot > 0
     /\ 4 * dot * dot > (f[1] * f[1] + f[2] * f[2]) * Dist2(p, e)

(***************************************************************************)
(* Enemy.                                                                  *)
(***************************************************************************)
\* the enemy after its constructor; isDead is not set there and reads as
\* false until die() sets it
NewEnemy(x, z) ==
  [x |-> x, y |-> 100, z |-> z, vy |-> 0, health |-> EnemyMaxHealth, isDead |-> FALSE]

\* updateAI moving twice as far
updateAIDouble(e, dt, target) ==
  LET dx == target[1] - e.x
      dy == 100 - e.y
      dz == target[2] - e.z
      len == ISqrt(dx * dx + dy * dy + dz * dz)
      mx == IF len = 0 THEN 0 ELSE Trunc(2 * dx * EnemySpeed * dt, len * 1000)
      mz == IF len = 0 THEN 0 ELSE Trunc(2 * dz * EnemySpeed * dt, len * 1000)
  IN [e EXCEPT !.x = e.x + mx, !.z = e.z + mz]

\* target is the point of the orbit that Date.now() selects
updateAI(e, dt, target) ==
  LET dx == target[1] - e.x
      dy == 100 - e.y
      dz == target[2] - e.z
      len == ISqrt(dx * dx + dy * dy + dz * dz)
      mx == IF len = 0 THEN 0 ELSE Trunc(dx * EnemySpeed * dt, len * 1000)
      mz == IF len = 0 THEN 0 ELSE Trunc(dz * EnemySpeed * dt, len * 1000)
  IN [e EXCEPT !.x = e.x + mx, !.z = e.z + mz]

EnemyUpdate(e, dt, target) ==
  LET a == updateAI(e, dt, target)
      vy1 == a.vy - Trunc(EnemyGravity * dt, 1000)
      grounded == a.y <= 100
      y2 == IF grounded THEN 100 ELSE a.y
      vy2 == IF grounded THEN 0 ELSE vy1
  IN [a EXCEPT !.vy = vy2, !.y = y2 + Trunc(vy2 * dt, 1000)]

\* die flipping the flag instead of setting it
dieToggle(e) == [e EXCEPT !.isDead = ~e.isDead]

die(e) == [e EXCEPT !.isDead = TRUE]

\* takeDamage testing health < 0 instead of health <= 0
takeDamageStrict(e, amount) ==
  LET h == [e EXCEPT !.health = e.health - amount]
  IN IF h.health < 0 THEN [h EXCEPT !.isDead = TRUE] ELSE h

takeDamage(e, amount) ==
  LET h == [e EXCEPT !.health = e.health - amount]
  IN IF h.health <= 0 THEN die(h) ELSE h

(***************************************************************************)
(* GameEngine.                                                             *)
(***************************************************************************)
\* the entity loop with health floored at 0
RECURSIVE EntityLoopFloored(_, _, _, _, _, _, _)
EntityLoopFloored(i, h, run, p, es, dt, target) ==
  IF i > Len(es) THEN [health |-> h, isRunning |-> run, enemies |-> es]
  ELSE LET e == EnemyUpdate(es[i], dt, target)
           hit == checkCollision(p, e)
           h2 == IF hit THEN Max(0, h - ContactDamage) ELSE h
           run2 == IF hit /\ h2 <= 0 THEN FALSE ELSE run
       IN EntityLoopFloored(i + 1, h2, run2, p, [es EXCEPT ![i] = e], dt, target)

\* the entity loop of update from enemy i on: each enemy is updated, then
\* tested against the player, who was updated first
RECURSIVE EntityLoop(_, _, _, _, _, _, _)
EntityLoop(i, h, run, p, es, dt, target) ==
  IF i > Len(es) THEN [health |-> h, isRunning |-> run, enemies |-> es]
  ELSE LET e == EnemyUpdate(es[i], dt, target)
           hit == checkCollision(p, e)
           h2 == IF hit THEN h - ContactDamage ELSE h
           run2 == IF hit /\ h2 <= 0 THEN FALSE ELSE run
       IN EntityLoop(i + 1, h2, run2, p, [es EXCEPT ![i] = e], dt, target)

\* the attack loop of update
AttackLoop(p, es, keys) ==
  IF isAttacking(keys) /\ p.attackCooldown <= 0
    THEN [i \in DOMAIN es |->
           IF ~es[i].isDead /\ isInAttackRange(p, es[i])
             THEN takeDamage(es[i], AttackDamage) ELSE es[i]]
    ELSE es

\* GameEngine.update on the state st = [health, isRunning, player, enemies]
Update(st, dt, keys, target, ws) ==
  LET p == PlayerUpdate(st.player, dt, keys, ws)
      r == EntityLoop(1, st.health, st.isRunning, p, st.enemies, dt, target)
  IN [health |-> r.health, isRunning |-> r.isRunning, player |-> p,
      enemies |-> AttackLoop(p, r.enemies, keys)]

\* addEnemies: an enemy spawned in a wall is moved to getValidPosition
SpawnEnemy(ws, x, z) ==
  LET pos == IF checkWallCollision(ws, x, z, ColliderRadius)
               THEN getValidPosition(ws, x, z, ColliderRadius) ELSE <<x, z>>
  IN NewEnemy(pos[1], pos[2])

(***************************************************************************)
(* Inputs explored.                                                        *)
(***************************************************************************)
\* frame times, in ms
DtSet == {0, 300}

\* key sets a frame may sample
KeySets == { {}, {"MouseLeft"}, {"KeyW", "Space"}, {"KeyA", "MouseLeft"} }

\* points of the orbit (cos, sin of Date.now() * 0.0005, times the radius)
\* that the frames see
OrbitTargets == { <<-(3 * OrbitRadius) \div 5, (4 * OrbitRadius) \div 5>> }

\* outcomes of the ten pairs of scatter draws of generateLayout(10, 10)
ScatterSet ==
  { << <<1, 1>>, <<2, 3>>, <<2, 3>>, <<5, 2>>, <<8, 8>>, <<3, 7>>, <<7, 1>>, <<4, 4>>, <<6, 6>>, <<1, 8>> >>,
    << <<3, 5>>, <<5, 3>>, <<1, 1>>, <<1, 1>>, <<8, 1>>, <<6, 2>>, <<2, 6>>, <<7, 7>>, <<4, 8>>, <<8, 4>> >> }

\* outcomes of the draws Math.random() * 20 - 10 of addEnemies, as the
\* position drawn for enemy i: all enemies next to the player's start; the
\* first in front of the player and the others far off; the first next to
\* the player and the others far off
SpawnSet ==
  { [i \in 1..EnemyCount |-> <<35, 45>>],
    [i \in 1..EnemyCount |-> IF i = 1 THEN <<5, -85>> ELSE <<405, 595>>],
    [i \in 1..EnemyCount |-> IF i = 1 THEN <<35, 45>> ELSE <<405, 595>>] }

\* amounts passed to takeDamage
DamageSet == {AttackDamage, 60}

\* frame times (ms) and key sets of a walking player
MoveDtSet == {0, 50, 300}

MoveKeySets ==
  { {}, {"KeyW"}, {"KeyS"}, {"KeyA"}, {"KeyD"}, {"KeyW", "KeyD"}, {"KeyW", "KeyA"},
    {"KeyS", "KeyD"}, {"KeyW", "KeyA", "ShiftLeft"} }

\* time (ms) from the end of one update to the next animation-frame
\* callback, and time an update takes up to its updateDebugInfo
WaitSet == DtSet

CostSet == {0, 20}

\* coordinates and radii passed to checkWallCollision and getValidPosition
QueryCoords == {0, 87, 110, 117, 120, 150, 200, 260}

QueryRadii == {10, 15, ColliderRadius}

(***************************************************************************)
(* State machine.                                                          *)
(***************************************************************************)
\* hist records what the claims observe and the program does not store:
\*   time    total frame time integrated so far
\*   tick    parity of the number of update calls so far
\*   attacks number of attack() calls so far
\*   since   frame time since the last attack() call, -1 before the first
\*   gap     frame time between the last two attack() calls, -1 before the second
\*   hits    direct takeDamage calls received by each enemy
\*   only25  whether every such call on the enemy passed attackDamage
\*   call    the last direct call of a DungeonGenerator query: its name, its
\*           arguments after the call and what it returned
\*   spawn   the position addEnemies drew for each enemy
\*   placed  the position each enemy had when addEnemies returned
\*   jump    whether the jump input was active in the last direct Player.update
\*   jumped  whether it was active in any direct Player.update so far
\*   move    the last Player.update of a walking player: how many there were,
\*           its frame time and keys, and the player's position and yaw
\*           before it
\*   clock   the engine clock and what gameLoop sampled from it: the time
\*           now and the clock's oldTime, the number of deltaTime samples,
\*           the times of the first, the previous and the last of them, the
\*           last deltaTime and the sum of all
NewCall(op, x, z, radius, result) ==
  [op |-> op, x |-> x, z |-> z, radius |-> radius, result |-> result]

NewMove(n, dt, keys, ox, oz, orot) ==
  [n |-> n, dt |-> dt, keys |-> keys, ox |-> ox, oz |-> oz, orot |-> orot]

\* new THREE.Clock()
NewClock ==
  [now |-> 0, oldTime |-> 0, samples |-> 0, first |-> 0, prev |-> 0, last |-> 0,
   delta |-> 0, sum |-> 0]

\* time passing
Elapse(c, ms) == [c EXCEPT !.now = c.now + ms]

\* clock.start(): oldTime becomes the current time
clockStart(c) == [c EXCEPT !.oldTime = c.now]

\* clock.getDelta(): the time since oldTime, and oldTime becomes the
\* current time
getDelta(c) == c.now - c.oldTime

afterGetDelta(c) == [c EXCEPT !.oldTime = c.now]

\* const deltaTime = this.clock.getDelta() in gameLoop, recorded
sampleDelta(c) ==
  [afterGetDelta(c) EXCEPT !.samples = c.samples + 1,
                           !.first = IF c.samples = 0 THEN c.now ELSE c.first,
                           !.prev = c.last,
                           !.last = c.now,
                           !.delta = getDelta(c),
                           !.sum = c.sum + getDelta(c)]

\* the clock after the update of a frame: the update takes cost ms and ends
\* with updateDebugInfo, which calls clock.getDelta() for the FPS line
updateDebugInfo(c, cost) == afterGetDelta(Elapse(c, cost))

NewHist ==
  [time |-> 0, tick |-> 0, attacks |-> 0, since |-> -1, gap |-> -1,
   hits |-> [i \in 1..EnemyCount |-> 0], only25 |-> [i \in 1..EnemyCount |-> TRUE],
   call |-> NewCall("none", 0, 0, 0, FALSE),
   spawn |-> << >>, placed |-> << >>, jump |-> FALSE, jumped |-> FALSE,
   move |-> NewMove(0, 0, {}, 0, 0, 0), clock |-> NewClock]

\* hist after an update step of frame time dt; attacked: attack() was called
StepHist(h, attacked, dt) ==
  [h EXCEPT !.time = h.time + dt,
            !.tick = 1 - h.tick,
            !.attacks = IF attacked THEN h.attacks + 1 ELSE h.attacks,
            !.since = IF attacked THEN 0 ELSE IF h.since < 0 THEN -1 ELSE h.since + dt,
            !.gap = IF attacked /\ h.since >= 0 THEN h.since + dt ELSE h.gap]

RECURSIVE SumTo(_, _)
SumTo(f, n) == IF n = 0 THEN 0 ELSE f[n] + SumTo(f, n - 1)

\* gen records the arguments and the random draws of the last generateLayout
\* call, the number of generateDungeon calls and the length this.walls had
\* before the last one
NewGen(width, height, picks, calls, before) ==
  [width |-> width, height |-> height, picks |-> picks, calls |-> calls,
   before |-> before]

\* the state after GameEngine.init
Init ==
  \E picks \in ScatterSet, spawn \in SpawnSet :
    LET lay == generateLayout(DungeonWidth, DungeonHeight, picks)
        ws == createDungeonMesh(<< >>, lay, DungeonWidth, DungeonHeight)
    IN /\ layout = lay
       /\ walls = ws
       /\ gen = NewGen(DungeonWidth, DungeonHeight, picks, 1, 0)
       /\ isRunning = FALSE
       /\ pending = 0
       /\ health = InitialHealth
       /\ player = NewPlayer
       /\ enemies = [i \in 1..EnemyCount |-> SpawnEnemy(ws, spawn[i][1], spawn[i][2])]
       /\ hist = [NewHist EXCEPT
                    !.spawn = spawn,
                    !.placed = [i \in 1..EnemyCount |->
                                 <<SpawnEnemy(ws, spawn[i][1], spawn[i][2]).x,
                                   SpawnEnemy(ws, spawn[i][1], spawn[i][2]).z>>]]

\* one call of update(dt) from gameLoop, entered with isRunning true, with the
\* inputs of the frame
UpdateStepWith(dt, keys, target, clk) ==
  /\ hist.time + dt <= MaxTime
  /\ health > -HealthDepth
  /\ \E st \in {Update([health |-> health, isRunning |-> TRUE, player |-> player,
                         enemies |-> enemies], dt, keys, target, walls)} :
       /\ isRunning' = st.isRunning
       /\ health' = st.health
       /\ player' = st.player
       /\ enemies' = st.enemies
  /\ hist' = [StepHist(hist, AttackIssued(player, dt, keys), dt) EXCEPT !.clock = clk]
  /\ UNCHANGED <<walls, layout, gen>>

UpdateStep(dt, keys, target) == UpdateStepWith(dt, keys, target, hist.clock)

\* start(): sets isRunning and runs gameLoop at once, which schedules the
\* next frame and runs update; update's stop() may clear isRunning again
StartWith(keySets) ==
  /\ ~isRunning
  /\ pending < MaxPending
  /\ \E dt \in DtSet, keys \in keySets, target \in OrbitTargets : UpdateStep(dt, keys, target)
  /\ pending' = pending + 1

Start == StartWith(KeySets)

stop ==
  /\ isRunning' = FALSE
  /\ UNCHANGED <<pending, health, player, enemies, walls, layout, gen, hist>>

\* a scheduled gameLoop callback fires while the loop runs: it schedules the
\* next one and runs update
FrameWith(keySets) ==
  /\ pending > 0
  /\ isRunning
  /\ \E dt \in DtSet, keys \in keySets, target \in OrbitTargets : UpdateStep(dt, keys, target)
  /\ pending' = pending

Frame == FrameWith(KeySets)

\* a scheduled gameLoop callback fires after stop(): it returns at once
FrameStopped ==
  /\ pending > 0
  /\ ~isRunning
  /\ pending' = pending - 1
  /\ UNCHANGED <<isRunning, health, player, enemies, walls, layout, gen, hist>>

Next == Start \/ stop \/ Frame \/ FrameStopped

Spec == Init /\ [][Next]_vars

(***************************************************************************)
(* The engine run with no key pressed, together with direct calls of the   *)
(* public method Enemy.takeDamage.                                         *)
(***************************************************************************)
\* a call of Enemy.takeDamage(amount) on enemy i
TakeDamage ==
  \E i \in 1..EnemyCount, amount \in DamageSet :
    /\ SumTo(hist.hits, EnemyCount) < MaxHits
    /\ enemies' = [enemies EXCEPT ![i] = takeDamage(enemies[i], amount)]
    /\ hist' = [hist EXCEPT !.hits[i] = hist.hits[i] + 1,
                            !.only25[i] = hist.only25[i] /\ amount = AttackDamage]
    /\ UNCHANGED <<isRunning, pending, health, player, walls, layout, gen>>

StartIdle == StartWith({{}})

FrameIdle == FrameWith({{}})

NextApi == TakeDamage \/ StartIdle \/ FrameIdle \/ FrameStopped

SpecApi == Init /\ [][NextApi]_vars

(***************************************************************************)
(* The player of an initialised game stepped on its own: direct calls of   *)
(* Player.update with any frame time and key set.                          *)
(***************************************************************************)
PlayerStep ==
  \E dt \in DtSet, keys \in KeySets :
    /\ hist.time + dt <= MaxFlight
    /\ player' = PlayerUpdate(player, dt, keys, walls)
    /\ hist' = [StepHist(hist, AttackIssued(player, dt, keys), dt) EXCEPT
                 !.jump = isJumping(keys),
                 !.jumped = hist.jumped \/ isJumping(keys)]
    /\ UNCHANGED <<isRunning, pending, health, enemies, walls, layout, gen>>

NextPlayer == PlayerStep

SpecPlayer == Init /\ [][NextPlayer]_vars

(***************************************************************************)
(* The player of an initialised game walked about: direct calls of         *)
(* Player.update with movement keys only.                                  *)
(***************************************************************************)
Walk ==
  \E dt \in MoveDtSet, keys \in MoveKeySets :
    /\ hist.move.n < MaxMoves
    /\ player' = PlayerUpdate(player, dt, keys, walls)
    /\ hist' = [StepHist(hist, AttackIssued(player, dt, keys), dt) EXCEPT
                 !.move = NewMove(hist.move.n + 1, dt, keys, player.x, player.z, player.rot)]
    /\ UNCHANGED <<isRunning, pending, health, enemies, walls, layout, gen>>

NextMove == Walk

SpecMove == Init /\ [][NextMove]_vars

(***************************************************************************)
(* The engine run with no key pressed and with its clock: each frame draws *)
(* its deltaTime from the clock.                                           *)
(***************************************************************************)
\* start(): clock.start(), then gameLoop samples the clock at once
ClockStart ==
  \E cost \in CostSet, target \in OrbitTargets :
    LET c0 == clockStart(hist.clock)
    IN /\ ~isRunning
       /\ pending < MaxPending
       /\ hist.clock.samples < MaxSamples
       /\ UpdateStepWith(getDelta(c0), {}, target, updateDebugInfo(sampleDelta(c0), cost))
       /\ pending' = pending + 1

\* a scheduled gameLoop callback fires while the loop runs
ClockFrame ==
  \E wait \in WaitSet, cost \in CostSet, target \in OrbitTargets :
    LET c0 == Elapse(hist.clock, wait)
    IN /\ pending > 0
       /\ isRunning
       /\ hist.clock.samples < MaxSamples
       /\ UpdateStepWith(getDelta(c0), {}, target, updateDebugInfo(sampleDelta(c0), cost))
       /\ pending' = pending

NextClock == ClockStart \/ ClockFrame

SpecClock == Init /\ [][NextClock]_vars

(***************************************************************************)
(* A dungeon generator on its own: the first generateDungeon call for      *)
(* every size up to MaxDim and every outcome of the scatter draws, and      *)
(* further calls on the same generator with the arguments of RegenSet.     *)
(***************************************************************************)
\* arguments and scatter draws <<width, height, picks>> of the calls after
\* the first
RegenSet ==
  { <<3, 3, << >> >>,
    <<4, 4, << <<1, 1>> >> >>,
    <<5, 5, << <<1, 1>>, <<3, 3>> >> >> }

\* the state after new DungeonGenerator()
InitLayout ==
  /\ layout = << >>
  /\ walls = << >>
  /\ gen = NewGen(0, 0, << >>, 0, 0)
  /\ isRunning = FALSE
  /\ pending = 0
  /\ health = InitialHealth
  /\ player = NewPlayer
  /\ enemies = << >>
  /\ hist = NewHist

\* generateDungeon(width, height) with the scatter draws picks
GenerateWith(width, height, picks) ==
  /\ layout' = generateLayout(width, height, picks)
  /\ walls' = createDungeonMesh(walls, generateLayout(width, height, picks), width, height)
  /\ gen' = NewGen(width, height, picks, gen.calls + 1, Len(walls))
  /\ UNCHANGED <<isRunning, pending, health, player, enemies, hist>>

\* the first call on the generator
generateDungeon ==
  /\ gen.calls = 0
  /\ \E width \in 3..MaxDim, height \in 3..MaxDim :
       \E picks \in [1..WallCount(width, height) -> PickSet(width, height)] :
         GenerateWith(width, height, picks)

\* a later call on the same generator
regenerate ==
  /\ gen.calls > 0
  /\ gen.calls < MaxCalls
  /\ \E args \in RegenSet : GenerateWith(args[1], args[2], args[3])

NextLayout == generateDungeon \/ regenerate

SpecLayout == InitLayout /\ [][NextLayout]_vars

(***************************************************************************)
(* A dungeon generator queried directly: new DungeonGenerator(), at most   *)
(* one generateDungeon call with the arguments of RegenSet, then one call  *)
(* of checkWallCollision or getValidPosition.                              *)
(***************************************************************************)
generateSmall ==
  /\ gen.calls = 0
  /\ hist.call.op = "none"
  /\ \E args \in RegenSet : GenerateWith(args[1], args[2], args[3])

CheckWallCollision ==
  \E px \in QueryCoords, pz \in QueryCoords, radius \in QueryRadii :
    /\ hist.call.op = "none"
    /\ hist' = [hist EXCEPT !.call = NewCall("checkWallCollision", px, pz, radius,
                                              checkWallCollision(walls, px, pz, radius))]
    /\ UNCHANGED <<isRunning, pending, health, player, enemies, walls, layout, gen>>

GetValidPosition ==
  \E px \in QueryCoords, pz \in QueryCoords, radius \in QueryRadii :
    /\ hist.call.op = "none"
    /\ hist' = [hist EXCEPT !.call = NewCall("getValidPosition", px, pz, radius,
                                              getValidPosition(walls, px, pz, radius))]
    /\ UNCHANGED <<isRunning, pending, health, player, enemies, walls, layout, gen>>

NextQuery == generateSmall \/ CheckWallCollision \/ GetValidPosition

SpecQuery == InitLayout /\ [][NextQuery]_vars

(***************************************************************************)
(* Claims.                                                                 *)
(***************************************************************************)
\* the transition is an update step
IsUpdate == hist'.tick # hist.tick

\* the transition is an update step in which handleAttacking called attack()
IsAttack == hist'.attacks > hist.attacks

\* enemy i's collider overlaps the player's: centre distance < 0.5 + 0.5
Overlaps(p, e) == Dist2(p, e) < 4 * ColliderRadius * ColliderRadius

\* C1: in an update step in which the attack is issued (attack input active,
\* cooldown <= 0), every live enemy within attackRange and inside the forward
\* cone loses attackDamage health exactly once, and an enemy farther away
\* than attackRange loses none.
C1_AttackHitsInRange ==
  [][IsAttack =>
       \A i \in 1..EnemyCount :
         /\ (~enemies[i].isDead /\ isInAttackRange(player', enemies'[i]))
              => enemies'[i].health = enemies[i].health - AttackDamage
         /\ Dist2(player', enemies'[i]) > AttackRange * AttackRange
              => enemies'[i].health = enemies[i].health]_vars

\* C2: game over is terminal: once health <= 0 the loop is stopped and no
\* later operation runs an update step or changes health.
C2_GameOverTerminal ==
  [][health <= 0 => (~isRunning /\ ~IsUpdate /\ health' = health)]_vars

\* C3: every update step lowers health by exactly 5 per enemy whose
\* collider overlaps the player's and leaves it unchanged when none does;
\* the loss repeats on every contact step and is not floored at 0.
C3_ContactDamage ==
  [][IsUpdate =>
       health' = health - ContactDamage * Cardinality({i \in 1..EnemyCount : Overlaps(player', enemies'[i])})]_vars

\* C3 witness: contact steps have taken health below 0.
C3_Witness == health < 0 /\ hist.tick = 1

\* C4: a dead enemy no longer takes part: no step moves it, and an overlap
\* between it and the player does not lower the player's health.
C4_DeadEnemyInert ==
  [][/\ \A i \in 1..EnemyCount :
          enemies[i].isDead => (enemies'[i].x = enemies[i].x /\ enemies'[i].z = enemies[i].z)
     /\ IsUpdate =>
          health' = health - ContactDamage * Cardinality({i \in 1..EnemyCount :
                                   ~enemies[i].isDead /\ Overlaps(player', enemies'[i])})]_vars

\* C5: for every enemy health <= 0 implies isDead; starting from health 100,
\* up to three takeDamage(25) calls leave health 100 - 25 n and the enemy not
\* dead, and the fourth leaves health 0 and the enemy dead.
C5_HealthDead ==
  \A i \in 1..EnemyCount :
    /\ enemies[i].health <= 0 => enemies[i].isDead
    /\ (hist.only25[i] /\ hist.hits[i] <= 4) =>
         /\ enemies[i].health = 100 - 25 * hist.hits[i]
         /\ enemies[i].isDead = (hist.hits[i] = 4)

\* C5 witness: an enemy after exactly four takeDamage(25) calls.
C5_Witness ==
  \E i \in 1..EnemyCount :
    hist.only25[i] /\ hist.hits[i] = 4 /\ enemies[i].health = 0 /\ enemies[i].isDead

\* C6: a takeDamage call on a dead enemy leaves its health unchanged.
C6_DeadTakesNoDamage ==
  [][\A i \in 1..EnemyCount : enemies[i].isDead => enemies'[i].health = enemies[i].health]_vars

\* C7: enemy death is irreversible: once isDead is true it stays true under
\* update steps and takeDamage calls, and the enemy list is never refilled.
C7_DeathIrreversible ==
  [][/\ Len(enemies') = Len(enemies)
     /\ \A i \in 1..EnemyCount : enemies[i].isDead => enemies'[i].isDead]_vars

\* C7 witness: a dead enemy that was hit again after its death (no single
\* hit of the amounts explored takes a live enemy to -60 or below).
C7_Witness == \E i \in 1..EnemyCount : enemies[i].isDead /\ enemies[i].health <= -60

\* C8: attackCooldown is clamped at 0: always 0 <= attackCooldown <= attackRate.
C8_CooldownClamped == player.attackCooldown >= 0 /\ player.attackCooldown <= AttackRate

\* C8 amended: attackCooldown never exceeds attackRate and is lowered only
\* while it is positive; it is not clamped at 0 and may end a step negative.
C8_CooldownBounded ==
  [][/\ player'.attackCooldown <= AttackRate
     /\ player'.attackCooldown < player.attackCooldown => player.attackCooldown > 0]_vars

\* C8 witness: a step longer than the remaining cooldown left it negative.
C8_Witness == player.attackCooldown < 0

\* C9: attacks are rate-limited: a step that issues attack() resets the
\* cooldown to attackRate, and the frame times of the steps between two
\* consecutive attack() calls sum to at least attackRate.
C9_RateLimited ==
  [][IsAttack =>
       /\ player'.attackCooldown = AttackRate
       /\ hist.attacks > 0 => hist'.gap >= AttackRate]_vars

\* C9 witness: a second attack() call has been issued.
C9_Witness == hist.attacks >= 2 /\ hist.gap >= AttackRate

\* C10: the grid returned by generateLayout has exactly height rows of width
\* cells, each Wall or Floor, and every border cell is Wall.
C10_BorderWalled ==
  gen.calls > 0 =>
    /\ DOMAIN layout = 0..(gen.height - 1)
    /\ \A y \in DOMAIN layout :
         /\ DOMAIN layout[y] = 0..(gen.width - 1)
         /\ \A x \in DOMAIN layout[y] :
              /\ layout[y][x] \in {WALL, FLOOR}
              /\ (x = 0 \/ y = 0 \/ x = gen.width - 1 \/ y = gen.height - 1) => layout[y][x] = WALL

\* C10 witness: a generated grid whose scatter drew at least two cells.
C10_Witness == gen.calls > 0 /\ Len(gen.picks) >= 2 /\ gen.picks[1] # gen.picks[2]

\* the number of interior (non-border) Wall cells of the generated grid
InteriorWalls ==
  Cardinality({c \in (1..(gen.width - 2)) \X (1..(gen.height - 2)) : layout[c[2]][c[1]] = WALL})

\* C11: for every width, height >= 3 and every scatter outcome, every
\* non-border cell of row floor(height/2) and of column floor(width/2) of
\* the generated grid is Floor.
C11_CentreCross ==
  gen.calls > 0 =>
    /\ \A x \in 1..(gen.width - 2) : layout[gen.height \div 2][x] = FLOOR
    /\ \A y \in 1..(gen.height - 2) : layout[y][gen.width \div 2] = FLOOR

\* C11 witness: a grid whose scatter drew a cell of the centre column that is
\* not on the centre row.
C11_Witness ==
  /\ gen.calls > 0
  /\ \E i \in 1..Len(gen.picks) :
       gen.picks[i][1] = gen.width \div 2 /\ gen.picks[i][2] # gen.height \div 2

\* C12: after any sequence of generateDungeon calls the wall list holds
\* exactly one rectangle per Wall cell of the latest layout, centred at
\* (col * tileSize, row * tileSize) with side tileSize, and nothing else.
C12_WallsMatchLayout ==
  gen.calls > 0 =>
    /\ Len(walls) = Cardinality({c \in (0..(gen.width - 1)) \X (0..(gen.height - 1)) :
                                  layout[c[2]][c[1]] = WALL})
    /\ \A x \in 0..(gen.width - 1), y \in 0..(gen.height - 1) :
         (layout[y][x] = WALL) <=>
           (\E i \in 1..Len(walls) : walls[i] = [x |-> x * TileSize, z |-> y * TileSize, size |-> TileSize])

\* C12 witness: a second call that produced fewer walls than the list held
\* before it.
C12_Witness == gen.calls >= 2 /\ gen.before > Len(walls) /\ Len(walls) > 0

\* the game is as GameEngine.init left it: nothing has moved or been hurt
AtInit ==
  /\ player = NewPlayer
  /\ health = InitialHealth
  /\ \A i \in 1..EnemyCount : enemies[i] = NewEnemy(hist.placed[i][1], hist.placed[i][2])

\* C18: after init (10x10 dungeon, player, enemies) one step with no input
\* leaves every actor's horizontal position unchanged, the player's health
\* at 100 and every enemy alive with unchanged health.
C18_IdleStepInert ==
  [][(IsUpdate /\ AtInit) =>
       /\ player'.x = player.x /\ player'.z = player.z
       /\ health' = InitialHealth
       /\ \A i \in 1..EnemyCount :
            /\ enemies'[i].x = enemies[i].x /\ enemies'[i].z = enemies[i].z
            /\ ~enemies'[i].isDead /\ enemies'[i].health = enemies[i].health]_vars

\* C18 amended: that step leaves the player's horizontal position unchanged
\* and every enemy alive with unchanged health; each enemy moves toward its
\* orbit point by at most speed * dt (to the fixed-point resolution; not at
\* all when dt = 0), and the player's health drops by 5 for every enemy whose
\* collider overlaps the player's after the step.
C18_IdleStepOrbit ==
  [][(IsUpdate /\ AtInit) =>
       LET dt == hist'.time - hist.time
           reach == (EnemySpeed * dt) \div 1000
       IN /\ player'.x = player.x /\ player'.z = player.z
          /\ health' = InitialHealth
                - ContactDamage * Cardinality({i \in 1..EnemyCount : Overlaps(player', enemies'[i])})
          /\ \A i \in 1..EnemyCount :
               /\ ~enemies'[i].isDead /\ enemies'[i].health = enemies[i].health
               /\ dt = 0 => (enemies'[i].x = enemies[i].x /\ enemies'[i].z = enemies[i].z)
               /\ (enemies'[i].x - enemies[i].x) * (enemies'[i].x - enemies[i].x)
                    + (enemies'[i].z - enemies[i].z) * (enemies'[i].z - enemies[i].z)
                    <= (reach + 1) * (reach + 1)]_vars

\* C18 witness: the state one idle step of 0.3 s after init, in which an
\* enemy has moved and one contact has cost the player 5 health.
C18_Witness ==
  /\ hist.time = 300
  /\ health = InitialHealth - ContactDamage
  /\ player.x = NewPlayer.x /\ player.z = NewPlayer.z
  /\ \E i \in 1..EnemyCount : <<enemies[i].x, enemies[i].z>> # hist.placed[i]
  /\ \A i \in 1..EnemyCount : enemies[i].health = EnemyMaxHealth

\* C19: the number of interior Wall cells is at most floor(width*height*0.1),
\* every scatter draw is at a column in [1, width-2] and a row in
\* [1, height-2], and every interior Wall cell is one of the draws.
C19_ScatterBounded ==
  gen.calls > 0 =>
    /\ InteriorWalls <= (gen.width * gen.height) \div 10
    /\ Len(gen.picks) = (gen.width * gen.height) \div 10
    /\ \A i \in 1..Len(gen.picks) :
         /\ gen.picks[i][1] \in 1..(gen.width - 2)
         /\ gen.picks[i][2] \in 1..(gen.height - 2)
    /\ \A x \in 1..(gen.width - 2), y \in 1..(gen.height - 2) :
         layout[y][x] = WALL => \E i \in 1..Len(gen.picks) : gen.picks[i] = <<x, y>>

\* C19 witness: a grid in which every one of two or more draws left a wall.
C19_Witness ==
  gen.calls > 0 /\ (gen.width * gen.height) \div 10 >= 2
    /\ InteriorWalls = (gen.width * gen.height) \div 10

\* squared distance from (px, pz) to the axis-aligned square of centre
\* (wall.x, wall.z) and half side wall.size / 2
BoxDist2(wall, px, pz) ==
  LET ex == Max(Abs(px - wall.x) - wall.size \div 2, 0)
      ez == Max(Abs(pz - wall.z) - wall.size \div 2, 0)
  IN ex * ex + ez * ez

\* the disc of the given radius about (px, pz) overlaps some wall rectangle
OverlapsWall(px, pz, radius) ==
  \E i \in 1..Len(walls) : BoxDist2(walls[i], px, pz) < radius * radius

\* C13: checkWallCollision(point, radius) is true exactly when some wall
\* rectangle is at distance strictly less than radius from the point; a
\* point at distance exactly radius does not overlap, and with an empty wall
\* list the result is false.
C13_CollisionExact ==
  hist.call.op = "checkWallCollision" =>
    /\ hist.call.result = OverlapsWall(hist.call.x, hist.call.z, hist.call.radius)
    /\ walls = << >> => hist.call.result = FALSE
    /\ (\A i \in 1..Len(walls) :
          BoxDist2(walls[i], hist.call.x, hist.call.z) >= hist.call.radius * hist.call.radius)
         => hist.call.result = FALSE

\* C13 witness: a query that returned false for a point whose nearest wall
\* is at distance exactly radius.
C13_Witness ==
  /\ hist.call.op = "checkWallCollision"
  /\ hist.call.result = FALSE
  /\ \E i \in 1..Len(walls) :
       BoxDist2(walls[i], hist.call.x, hist.call.z) = hist.call.radius * hist.call.radius

\* probe of direction d (1..8) at step k (distance 0.1 * k) from (px, pz)
ProbePoint(px, pz, d, k) ==
  <<px + Trunc(Directions[d][1] * 10 * k, 1000), pz + Trunc(Directions[d][2] * 10 * k, 1000)>>

\* the probes (8 directions, distances 0.1, 0.2, ... up to 2 * radius) that
\* are clear of the walls, as <<direction, step>>
ClearProbes(px, pz, radius) ==
  {c \in (1..8) \X (1..((2 * radius) \div 10)) :
     ~OverlapsWall(ProbePoint(px, pz, c[1], c[2])[1], ProbePoint(px, pz, c[1], c[2])[2], radius)}

\* C14: the result of getValidPosition either does not overlap any wall or
\* equals the input; it overlaps exactly when the input overlaps and none of
\* the probes (8 directions, distances 0.1, 0.2, ... up to 2*radius) is
\* clear; a returned probe is the first clear one in probe order and at most
\* 2*radius from the input.
C14_BestEffort ==
  hist.call.op = "getValidPosition" =>
    LET px == hist.call.x
        pz == hist.call.z
        radius == hist.call.radius
        pos == hist.call.result
        clear == ClearProbes(px, pz, radius)
    IN /\ pos = <<px, pz>> \/ ~OverlapsWall(pos[1], pos[2], radius)
       /\ OverlapsWall(pos[1], pos[2], radius) <=> (OverlapsWall(px, pz, radius) /\ clear = {})
       /\ (OverlapsWall(px, pz, radius) /\ clear # {}) =>
            \E c \in clear :
              /\ pos = ProbePoint(px, pz, c[1], c[2])
              /\ \A b \in clear : b[1] > c[1] \/ (b[1] = c[1] /\ b[2] >= c[2])
              /\ (pos[1] - px) * (pos[1] - px) + (pos[2] - pz) * (pos[2] - pz)
                   <= 4 * radius * radius

\* C15: getValidPosition is the identity on clear points, and the call
\* leaves the wall list and its argument unchanged.
C15_IdentityOnClear ==
  [][(hist'.call.op = "getValidPosition" /\ hist.call.op = "none") =>
       /\ walls' = walls
       /\ ~OverlapsWall(hist'.call.x, hist'.call.z, hist'.call.radius)
            => hist'.call.result = <<hist'.call.x, hist'.call.z>>]_vars

\* C15 witness: a call on a clear point of a generated dungeon from which the
\* first probe would be clear as well.
C15_Witness ==
  /\ hist.call.op = "getValidPosition"
  /\ Len(walls) > 0
  /\ ~OverlapsWall(hist.call.x, hist.call.z, hist.call.radius)
  /\ <<1, 1>> \in ClearProbes(hist.call.x, hist.call.z, hist.call.radius)
  /\ hist.call.result = <<hist.call.x, hist.call.z>>

\* C16: after addEnemies no enemy overlaps a wall: an enemy drawn clear of
\* the walls stays where it was drawn, and one drawn overlapping a wall has
\* been moved to a collision-free position, the nearest of the probe points.
C16_EnemiesClearOfWalls ==
  \A i \in 1..EnemyCount :
    LET sx == hist.spawn[i][1]
        sz == hist.spawn[i][2]
        qx == hist.placed[i][1]
        qz == hist.placed[i][2]
    IN /\ ~OverlapsWall(qx, qz, ColliderRadius)
       /\ ~OverlapsWall(sx, sz, ColliderRadius) => <<qx, qz>> = <<sx, sz>>
       /\ \A c \in ClearProbes(sx, sz, ColliderRadius) :
            (qx - sx) * (qx - sx) + (qz - sz) * (qz - sz)
              <= (ProbePoint(sx, sz, c[1], c[2])[1] - sx) * (ProbePoint(sx, sz, c[1], c[2])[1] - sx)
                 + (ProbePoint(sx, sz, c[1], c[2])[2] - sz) * (ProbePoint(sx, sz, c[1], c[2])[2] - sz)

\* C17: a step that starts on the ground (y <= groundHeight) with the jump
\* input active sets velocity.y to jumpForce and isOnGround to false; a step
\* that starts with y > groundHeight leaves isOnGround false and only
\* applies gravity to velocity.y, whatever the jump input (no mid-air jump).
C17_JumpFromGroundOnly ==
  [][IsUpdate =>
       /\ (player.y <= GroundHeight /\ hist'.jump)
            => (player'.vy = JumpForce /\ ~player'.isOnGround)
       /\ player.y > GroundHeight
            => /\ ~player'.isOnGround
               /\ player'.vy = player.vy - Trunc(Gravity * (hist'.time - hist.time), 1000)]_vars

\* C17 witness: the player in the air and descending after a step in which
\* the jump input was active.
C17_Witness ==
  player.y > GroundHeight /\ ~player.isOnGround /\ player.vy < 0 /\ hist.jump

\* C20: at the end of every player step position.y >= groundHeight, and
\* with no jump input ever given position.y stays exactly at groundHeight
\* and isOnGround stays true.
C20_NeverBelowGround ==
  /\ player.y >= GroundHeight
  /\ ~hist.jumped => (player.y = GroundHeight /\ player.isOnGround)

\* the planar direction of the keys, in 1/1000: +z for S, -z for W, +x for D,
\* -x for A, a diagonal scaled by 0.707
KeyDirection(keys) ==
  LET dx == (IF "KeyD" \in keys THEN 1 ELSE 0) - (IF "KeyA" \in keys THEN 1 ELSE 0)
      dz == (IF "KeyS" \in keys THEN 1 ELSE 0) - (IF "KeyW" \in keys THEN 1 ELSE 0)
      scale == IF dx # 0 /\ dz # 0 THEN 707 ELSE 1000
  IN <<dx * scale, dz * scale>>

\* the movement (mx, mz) of the last step of a walking player: direction
\* times speed (5, or 7.5 sprinting) times dt
LastMovement ==
  LET speed == IF "ShiftLeft" \in hist.move.keys THEN 750 ELSE 500
  IN <<Trunc(KeyDirection(hist.move.keys)[1] * speed * hist.move.dt, 1000000),
       Trunc(KeyDirection(hist.move.keys)[2] * speed * hist.move.dt, 1000000)>>

\* C21: if the player does not overlap any wall before handleMovement, it
\* does not overlap any wall after it, for every input direction, sprint
\* flag and dt.
C21_MovementKeepsClear ==
  (hist.move.n > 0 /\ ~OverlapsWall(hist.move.ox, hist.move.oz, ColliderRadius))
    => ~OverlapsWall(player.x, player.z, ColliderRadius)

\* C21 witness: a player clear of the walls whose last movement would have
\* ended inside a wall and was held back.
C21_Witness ==
  /\ hist.move.n > 0
  /\ ~OverlapsWall(hist.move.ox, hist.move.oz, ColliderRadius)
  /\ OverlapsWall(hist.move.ox + LastMovement[1], hist.move.oz + LastMovement[2], ColliderRadius)
  /\ ~OverlapsWall(player.x, player.z, ColliderRadius)

\* C22: with old position o and movement (mx, mz) the player ends at
\* o + (mx, mz) if that is clear, otherwise at o + (mx, 0) if that is clear,
\* otherwise at o + (0, mz) if that is clear, otherwise at o; the vertical
\* coordinate is not changed.
C22_SlideOrder ==
  hist.move.n > 0 =>
    LET ox == hist.move.ox
        oz == hist.move.oz
        mx == LastMovement[1]
        mz == LastMovement[2]
    IN /\ <<player.x, player.z>> =
            IF ~OverlapsWall(ox + mx, oz + mz, ColliderRadius) THEN <<ox + mx, oz + mz>>
            ELSE IF ~OverlapsWall(ox + mx, oz, ColliderRadius) THEN <<ox + mx, oz>>
            ELSE IF ~OverlapsWall(ox, oz + mz, ColliderRadius) THEN <<ox, oz + mz>>
            ELSE <<ox, oz>>
       /\ player.y = GroundHeight

\* C22 witness: a diagonal movement that was blocked, whose X-only and
\* Z-only parts were both clear, and that ended as the X-only move.
C22_Witness ==
  /\ hist.move.n > 0
  /\ LastMovement[1] # 0 /\ LastMovement[2] # 0
  /\ OverlapsWall(hist.move.ox + LastMovement[1], hist.move.oz + LastMovement[2], ColliderRadius)
  /\ ~OverlapsWall(hist.move.ox + LastMovement[1], hist.move.oz, ColliderRadius)
  /\ ~OverlapsWall(hist.move.ox, hist.move.oz + LastMovement[2], ColliderRadius)
  /\ <<player.x, player.z>> = <<hist.move.ox + LastMovement[1], hist.move.oz>>

\* the yaw the keys of the last step ask for: atan2(dirX, dirZ)
LastTarget == Atan2(KeyDirection(hist.move.keys)[1], KeyDirection(hist.move.keys)[2])

\* an angle in 1/10 degree brought into (-180, 180] degrees
WrapToPi(a) ==
  LET r == ((a % 3600) + 3600) % 3600
  IN IF r > 1800 THEN r - 3600 ELSE r

\* C23: in a player step with non-zero input direction the yaw at the end
\* of the step equals old yaw + wrapToPi(targetYaw - old yaw) * min(10*dt, 1),
\* so whenever 10*dt < 1 and the old yaw differs from the target, the yaw at
\* the end of the step has not reached the target.
C23_YawSmoothed ==
  (hist.move.n > 0 /\ KeyDirection(hist.move.keys) # <<0, 0>>) =>
    /\ player.rot = hist.move.orot
         + Trunc(WrapToPi(LastTarget - hist.move.orot) * Min(RotationSpeed * hist.move.dt, 1000), 1000)
    /\ (RotationSpeed * hist.move.dt < 1000 /\ hist.move.orot # LastTarget)
         => player.rot # LastTarget

\* C24: the normalized angle difference that handleRotation computes lies
\* in [-PI, PI] for every current yaw and every target yaw in [-PI, PI],
\* including when target - yaw is below -PI.
C24_DiffInRange ==
  (/\ hist.move.n > 0
   /\ KeyDirection(hist.move.keys) # <<0, 0>>
   /\ hist.move.orot \in -1800..1800
   /\ LastTarget \in -1800..1800) =>
    normalizedAngleDiff(LastTarget - hist.move.orot) \in -1800..1800

\* an entity at the player's height, k/100 units from the player along the
\* planar direction d (in 1/1000)
EntityAlong(d, k) ==
  [x |-> player.x + Trunc(k * d[1], 1000), y |-> player.y, z |-> player.z + Trunc(k * d[2], 1000)]

\* distances (1/100 unit) of the entities placed before and behind the player
ConeDistances == {50, 100, AttackRange}

\* C28: after a step in which the player moved in planar direction d
\* (non-zero input, dt > 0, camera yaw 0), isInAttackRange is true for an
\* entity at player position + k*d with 0 < k <= attackRange and false for
\* an entity at player position - k*d.
C28_ConeFollowsMovement ==
  (/\ hist.move.n > 0
   /\ hist.move.dt > 0
   /\ KeyDirection(hist.move.keys) # <<0, 0>>
   /\ <<player.x, player.z>> = <<hist.move.ox + LastMovement[1], hist.move.oz + LastMovement[2]>>) =>
    \A k \in ConeDistances :
      /\ isInAttackRange(player, EntityAlong(KeyDirection(hist.move.keys), k))
      /\ ~isInAttackRange(player, EntityAlong(KeyDirection(hist.move.keys), -k))

\* C26: in every reachable state of the initialised game, from the initial
\* state on and after every step, the player's position does not overlap
\* any wall rectangle.
C26_PlayerClearOfWalls == ~OverlapsWall(player.x, player.z, ColliderRadius)

\* C27: over any interleaving of start(), stop() and delivered
\* animation-frame callbacks at most one gameLoop callback is pending at any
\* time; stop() followed by start() before the scheduled frame fires does
\* not create a second loop chain.
C27_SingleLoop == pending <= 1

\* C25: the deltaTime passed to update in a frame equals the time elapsed
\* since the previous frame's deltaTime was sampled, so over a run the
\* deltaTimes sum to the wall-clock time between the first and the last
\* sample and no interval is dropped.
C25_NoIntervalDropped ==
  /\ hist.clock.samples > 1 => hist.clock.delta = hist.clock.last - hist.clock.prev
  /\ hist.clock.samples > 0 => hist.clock.sum = hist.clock.last - hist.clock.first

====
